---- MODULE Spec2Model ----
(***************************************************************************)
(* Model of the spin-class booking bot.                                    *)
(*                                                                         *)
(*   src/booking_bot.py  class BookingBot: is_time_to_book, start_driver,  *)
(*                       stop_driver, login_to_website, click_book_now,    *)
(*                       select_session, select_bike, run                  *)
(*   src/bot_runner.py   main(): the polling loop and the per-bike retry   *)
(*                       loop of the script                                *)
(*                                                                         *)
(* The web site is the environment: every step draws the state of the     *)
(* page elements it looks up (found in time or not, absent / hidden /      *)
(* displayed markers) from a small set, and the step's result is computed  *)
(* from them as the code computes it.                                      *)
(***************************************************************************)
EXTENDS Integers, Sequences, FiniteSets, TLC

\* ---------------------------------------------------------------- bounds
\* Largest max_tries a configuration of the model holds.
MaxTries == 3
\* Largest time_check_limit a configuration of the model holds.
MaxPolls == 2
\* Longest desired_bikes list a configuration of the model holds.
MaxBikes == 2
\* Longest list of session entries the page shows for the instructor.
MaxEntries == 2
\* Most minutes the clock advances outside the polling loop.
MaxTicks == 2

\* ------------------------------------------------------------ the clock
\* datetime.now(): weekday 1..7 (Monday = 1), hour 0..23, minute 0..59.
DayNames == <<"Monday", "Tuesday", "Wednesday", "Thursday", "Friday", "Saturday", "Sunday">>

\* now.strftime('%A')
strftime_A(t) == DayNames[t.weekday]

At(wd, h, m) == [weekday |-> wd, hour |-> h, minute |-> m]

\* The clock one minute later (time.sleep(60) in the polling loop).
NextMinute(t) ==
    IF t.minute < 59 THEN At(t.weekday, t.hour, t.minute + 1)
    ELSE IF t.hour < 23 THEN At(t.weekday, t.hour + 1, 0)
    ELSE At((t.weekday % 7) + 1, 0, 0)

\* A plausible slip: the upper end of the minute range excluded.
is_time_to_book_exclusive_end(t, cfg) ==
    IF strftime_A(t) = cfg.booking_day
    THEN (t.hour = cfg.booking_hour
          /\ cfg.booking_minute_start <= t.minute
          /\ t.minute < cfg.booking_minute_end)
    ELSE FALSE

\* BookingBot.is_time_to_book: the day first, then hour and minute range.
is_time_to_book(t, cfg) ==
    IF strftime_A(t) = cfg.booking_day
    THEN IF (t.hour = cfg.booking_hour
             /\ cfg.booking_minute_start <= t.minute
             /\ t.minute <= cfg.booking_minute_end)
         THEN TRUE
         ELSE FALSE
    ELSE FALSE

\* ------------------------------------------------------- step results
\* A Python str is a sequence of words here; None is a value of its own.
Str(words) == [isNone |-> FALSE, text |-> words]
NoneResult == [isNone |-> TRUE, text |-> <<>>]

NoSeriesMsg == Str(<<"You", "don't", "have", "a", "series">>)
UnknownMsg == Str(<<"Unknown", "outcome", "after", "seat", "selection">>)
SeatErrorMsg == Str(<<"Error", "during", "seat", "selection">>)
EnrolledText == <<"You", "have", "been", "successfully", "enrolled">>
WaitlistText == <<"enrolled", "successfully", "waitlisted">>
\* What success_msg_element.text may read.
SuccessTexts == {EnrolledText, WaitlistText}

Needle == <<"successfully", "enrolled">>

\* needle in text (Python substring test, on words)
Contains(needle, text) ==
    \E i \in 1..(Len(text) - Len(needle) + 1) :
        \A j \in 1..Len(needle) : text[i + j - 1] = needle[j]

\* A plausible slip: `is not False` in place of truthiness, so None passes.
Truthy_not_false(r) == r # "False"

\* Python truthiness of a step's return value ("True", "False" or "None").
Truthy(r) == r = "True"

Marker == {"absent", "hidden", "displayed"}

\* What the login page shows: whether iframe, fields and button are found in
\* time, and the state of the "alert" element after sign-in.
LoginPages == [found : BOOLEAN, alert : Marker]

\* BookingBot.login_to_website, after the driver is started and the login
\* page requested: the return value.
login_to_website(creds, page) ==
    IF ~creds THEN "False"
    ELSE IF ~page.found THEN "False"
    ELSE IF page.alert = "displayed" THEN "False"
    ELSE IF page.alert = "hidden" THEN "None"
    ELSE "True"

\* BookingBot.click_book_now: the menu and the location link found or not.
click_book_now(found) == IF found THEN "True" ELSE "False"

\* A session entry of the instructor: which of the configured activity,
\* instructor and time its text contains, and whether its link is clickable.
Entry(a, i, t, c) == [activity |-> a, instructor |-> i, time |-> t, clickable |-> c]
EntryKinds ==
    { Entry(TRUE, TRUE, TRUE, TRUE), Entry(TRUE, TRUE, TRUE, FALSE),
      Entry(FALSE, TRUE, TRUE, TRUE), Entry(TRUE, FALSE, TRUE, TRUE),
      Entry(TRUE, TRUE, FALSE, TRUE) }
EntryLists == UNION { [1..n -> EntryKinds] : n \in 1..MaxEntries }
\* found = FALSE: a lookup before the scan timed out (also: no entry at all).
SessionPages == { [found |-> FALSE, entries |-> <<>>] }
                \cup { [found |-> TRUE, entries |-> es] : es \in EntryLists }

\* A plausible slip: the time is not tested.
Matches_no_time(e) == e.activity /\ e.instructor

\* The if of the scan: all three configured texts occur in session.text.
Matches(e) == e.activity /\ e.instructor /\ e.time

RECURSIVE ScanSessions(_, _)
\* The for loop of select_session from entry k on: the first full match is
\* clicked (True) or its link times out (False); no match gives False.
ScanSessions(entries, k) ==
    IF k > Len(entries) THEN [ret |-> "False", clicked |-> 0]
    ELSE IF Matches(entries[k])
         THEN IF entries[k].clickable
              THEN [ret |-> "True", clicked |-> k]
              ELSE [ret |-> "False", clicked |-> 0]
         ELSE ScanSessions(entries, k + 1)

\* BookingBot.select_session
select_session(page) ==
    IF ~page.found THEN [ret |-> "False", clicked |-> 0]
    ELSE ScanSessions(page.entries, 1)

\* What select_session returns to run, over every state of the page.
SessionReturns == { select_session(page).ret : page \in SessionPages }

\* What the page shows after the bike is clicked.
BikePages == [bike : BOOLEAN, alert : Marker, success : Marker, text : SuccessTexts]

\* BookingBot.select_bike: the return value; a success marker that is
\* present but not displayed falls off the end of the function (None).
select_bike(page) ==
    IF ~page.bike THEN SeatErrorMsg
    ELSE IF page.alert = "displayed" THEN NoSeriesMsg
    ELSE IF page.success = "absent" THEN UnknownMsg
    ELSE IF page.success = "displayed" THEN Str(page.text)
    ELSE NoneResult

\* What select_bike returns to run, over every state of the page.
BikeReturns == { select_bike(page) : page \in BikePages }

\* "successfully enrolled" in result (result is a str here)
Enrolled(result) == Contains(Needle, result.text)

\* A plausible slip: one try too many.
HasNextAttempt_off_by_one(a, n) == a <= n

\* for attempt in range(1, max_tries + 1): is there a next attempt after a
HasNextAttempt(a, n) == a < n

\* A plausible slip: the break after a successful booking left out.
LeaveTry_no_break(p) ==
    IF p = "raise" THEN "raised" ELSE "sleep"

\* Where run goes once the finally clause has run: the exception goes on to
\* the caller, the break leaves the loop, or the loop body goes on to its sleep.
LeaveTry(p) ==
    CASE p = "raise" -> "raised"
      [] p = "break" -> "after_loop"
      [] OTHER -> "sleep"

\* A plausible slip: the loop condition without its `not`.
AfterGate_inverted(r) == IF r THEN "poll_sleep" ELSE "for_bikes"

\* while not is_time_to_book(): the loop body when the gate is shut, the
\* bikes when it is open.
AfterGate(r) == IF r THEN "for_bikes" ELSE "poll_sleep"


\* ---------------------------------------------------------------- state
Bots == {"bot1", "bot2"}
\* The bikes config.json may list, in the order it lists them.
AllBikes == <<"Bike 7", "Bike 12", "Bike 3", "Bike 21">>
Bikes == {"Bike 7", "Bike 12"}

VARIABLES
    entry,                \* what is running: a caller of BookingBot, or the script
    call,                 \* the last step method called on its own: name, page, result
    config,               \* config.json
    env_creds,            \* CRU_BOOKING_EMAIL and CRU_BOOKING_PASSWORD both set
    now,                  \* datetime.now()
    ticks,                \* minutes the clock advanced outside the polling loop
    gate_result,          \* last return value of is_time_to_book
    gate_opened,          \* some evaluation of is_time_to_book returned True
    sessions,             \* every browser session a BookingBot started: owner, times quit
    \* BookingBot, per instance
    driver,               \* self.driver: 0 (None) or an index of sessions
    pc,                   \* where run is
    attempt,              \* the loop variable of run
    booking_successful,   \* the flag of run
    pending,              \* how the try block was left: none, break, raise
    target,               \* desired_bike
    results,              \* per attempt: what each step returned
    trace,                \* calls and log lines, in order
    \* bot_runner.main
    m_pc, time_check_count, bike_idx, m_attempt, m_booking_successful,
    m_driver, m_pending,
    m_polls,              \* gate evaluations and sleeps of the polling loop
    m_results,            \* attempts of the bike being processed
    m_trace,              \* calls and log lines for the bike being processed
    m_summary             \* per finished bike: attempts, booked, reported

gate_vars == <<now, ticks, gate_result, gate_opened>>
bot_vars == <<driver, pc, attempt, booking_successful, pending, target, results, trace>>
main_vars == <<m_pc, time_check_count, bike_idx, m_attempt, m_booking_successful,
               m_driver, m_pending, m_polls, m_results, m_trace, m_summary>>
vars == <<entry, call, config, env_creds, sessions, gate_vars, bot_vars, main_vars>>

Window(d, h, s, e) ==
    [booking_day |-> d, booking_hour |-> h, booking_minute_start |-> s, booking_minute_end |-> e]

Config(w, tries, limit, bikes) ==
    [booking_day |-> w.booking_day, booking_hour |-> w.booking_hour,
     booking_minute_start |-> w.booking_minute_start,
     booking_minute_end |-> w.booking_minute_end,
     max_tries |-> tries, time_check_limit |-> limit, desired_bikes |-> bikes]

\* The window and the start times of the runs: the gate is shut at 09:00,
\* open at 09:01 and 09:02, and never opens on Sunday night.
RunWindow == Window("Monday", 9, 1, 2)
StartTimes == {At(7, 23, 59), At(1, 9, 0), At(1, 9, 1)}
RunTimes == {At(1, 9, 0), At(1, 9, 1)}

\* Windows and times for the clock gate on its own: a day name that matches
\* no weekday, ranges that wrap past the hour, the ends of day and week.
GateWindows ==
    { Window(d, h, s, e) : d \in {"Monday", "Sunday", "monday"}, h \in {0, 9, 23},
                           s \in {0, 1, 58, 59}, e \in {0, 1, 58, 59} }
GateTimes ==
    { At(wd, h, m) : wd \in {1, 7}, h \in {0, 9, 23}, m \in {0, 1, 2, 57, 58, 59} }

BikeLists == { SubSeq(AllBikes, 1, n) : n \in 0..MaxBikes }

\* The configurations the script is run with: every max_tries and bike list
\* under the largest poll limit, and every poll limit with one try of one bike.
MainConfigs ==
    { Config(RunWindow, n, MaxPolls, bs) : n \in 0..MaxTries, bs \in BikeLists }
    \cup { Config(RunWindow, 1, l, SubSeq(AllBikes, 1, 1)) : l \in 0..MaxPolls }

BlankAttempt ==
    [login |-> "notrun", click |-> "notrun", session |-> "notrun",
     bike_called |-> FALSE, bike |-> NoneResult, success |-> FALSE]

InitBots ==
    /\ driver = [b \in Bots |-> 0]
    /\ pc = [b \in Bots |-> "idle"]
    /\ attempt = [b \in Bots |-> 0]
    /\ booking_successful = [b \in Bots |-> FALSE]
    /\ pending = [b \in Bots |-> "none"]
    /\ target = [b \in Bots |-> "unset"]
    /\ results = [b \in Bots |-> <<>>]
    /\ trace = [b \in Bots |-> <<>>]

InitMain(start) ==
    /\ m_pc = start
    /\ time_check_count = 0
    /\ bike_idx = 0
    /\ m_attempt = 0
    /\ m_booking_successful = FALSE
    /\ m_driver = 0
    /\ m_pending = "none"
    /\ m_polls = <<>>
    /\ m_results = <<>>
    /\ m_trace = <<>>
    /\ m_summary = <<>>

InitCommon ==
    /\ call = [fn |-> "none"]
    /\ ticks = 0
    /\ gate_result = "unset"
    /\ gate_opened = FALSE
    /\ sessions = <<>>
    /\ InitBots

\* A caller constructs a BookingBot; the script is loaded and about to call main().
Init ==
    /\ InitCommon
    /\ entry \in {"BookingBot", "bot_runner"}
    /\ \/ /\ entry = "BookingBot"
          /\ env_creds \in BOOLEAN
          /\ now \in RunTimes
          /\ config \in { Config(RunWindow, n, 0, <<>>) : n \in 0..MaxTries }
          /\ InitMain("off")
       \/ /\ entry = "bot_runner"
          /\ env_creds = TRUE
          /\ now \in StartTimes
          /\ config \in MainConfigs
          /\ InitMain("start")

\* ----------------------------------------------------------- BookingBot
Log(b, events) == trace' = [trace EXCEPT ![b] = @ \o events]

SetLast(b, field, value) ==
    results' = [results EXCEPT ![b][Len(results[b])][field] = value]

\* bot.is_time_to_book() called on an idle bot.
GateCall(b) ==
    /\ entry \in {"BookingBot", "gate"}
    /\ pc[b] = "idle"
    /\ LET r == is_time_to_book(now, config) IN
         /\ gate_result' = IF r THEN "True" ELSE "False"
         /\ gate_opened' = (gate_opened \/ r)
    /\ UNCHANGED <<entry, call, config, env_creds, sessions, now, ticks, bot_vars, main_vars>>

\* A minute passes.
Tick ==
    /\ entry = "gate"
    /\ ticks < MaxTicks
    /\ ticks' = ticks + 1
    /\ now' = NextMinute(now)
    /\ gate_result' = "unset"
    /\ UNCHANGED <<entry, call, config, env_creds, sessions, gate_opened, bot_vars, main_vars>>

\* bot.run(bike) is called: max_tries is read, the flag cleared.
RunCall(b, bike) ==
    /\ entry = "BookingBot"
    /\ pc[b] = "idle"
    /\ pc' = [pc EXCEPT ![b] = "for"]
    /\ target' = [target EXCEPT ![b] = bike]
    /\ booking_successful' = [booking_successful EXCEPT ![b] = FALSE]
    /\ UNCHANGED <<entry, call, config, env_creds, sessions, gate_vars, driver, attempt,
                   pending, results, trace, main_vars>>

\* The head of the for loop: the next attempt is announced, or the loop ends.
ForNext(b) ==
    /\ pc[b] = "for"
    /\ IF HasNextAttempt(attempt[b], config.max_tries)
       THEN /\ attempt' = [attempt EXCEPT ![b] = @ + 1]
            /\ results' = [results EXCEPT ![b] = Append(@, BlankAttempt)]
            /\ Log(b, <<"attempt">>)
            /\ pending' = [pending EXCEPT ![b] = "none"]
            /\ pc' = [pc EXCEPT ![b] = "login"]
       ELSE /\ pc' = [pc EXCEPT ![b] = "after_loop"]
            /\ UNCHANGED <<attempt, results, trace, pending>>
    /\ UNCHANGED <<entry, call, config, env_creds, sessions, gate_vars, driver,
                   booking_successful, target, main_vars>>

\* self.login_to_website(): the driver is started when there is none, the
\* login page requested, the credentials read, the form filled in.
Login(b) ==
    /\ pc[b] = "login"
    /\ \E page \in LoginPages :
         LET fresh == driver[b] = 0
             r == login_to_website(env_creds, page)
         IN
         /\ sessions' = IF fresh THEN Append(sessions, [owner |-> b, quits |-> 0])
                        ELSE sessions
         /\ driver' = IF fresh THEN [driver EXCEPT ![b] = Len(sessions) + 1] ELSE driver
         /\ Log(b, (IF fresh THEN <<"start_driver">> ELSE <<>>)
                   \o <<"get_login_url">>
                   \o (IF env_creds THEN <<>> ELSE <<"creds_missing">>)
                   \o <<"login">>)
         /\ SetLast(b, "login", r)
         /\ pc' = [pc EXCEPT ![b] = IF Truthy(r) THEN "click_book_now" ELSE "finally"]
    /\ UNCHANGED <<entry, call, config, env_creds, gate_vars, attempt, booking_successful,
                   pending, target, main_vars>>

\* self.click_book_now()
ClickBookNow(b) ==
    /\ pc[b] = "click_book_now"
    /\ \E found \in BOOLEAN :
         LET r == click_book_now(found) IN
         /\ SetLast(b, "click", r)
         /\ pc' = [pc EXCEPT ![b] = IF Truthy(r) THEN "select_session" ELSE "finally"]
    /\ Log(b, <<"click_book_now">>)
    /\ UNCHANGED <<entry, call, config, env_creds, sessions, gate_vars, driver, attempt,
                   booking_successful, pending, target, main_vars>>

\* self.select_session()
SelectSession(b) ==
    /\ pc[b] = "select_session"
    /\ \E r \in SessionReturns :
         /\ SetLast(b, "session", r)
         /\ pc' = [pc EXCEPT ![b] = IF Truthy(r) THEN "select_bike" ELSE "finally"]
    /\ Log(b, <<"select_session">>)
    /\ UNCHANGED <<entry, call, config, env_creds, sessions, gate_vars, driver, attempt,
                   booking_successful, pending, target, main_vars>>

\* result = self.select_bike(desired_bike) and the test of the result:
\* `"successfully enrolled" in None` raises TypeError.
SelectBike(b) ==
    /\ pc[b] = "select_bike"
    /\ \E r \in BikeReturns :
         IF r.isNone
         THEN /\ results' = [results EXCEPT ![b][Len(results[b])].bike_called = TRUE,
                                            ![b][Len(results[b])].bike = r]
              /\ Log(b, <<"select_bike">>)
              /\ pending' = [pending EXCEPT ![b] = "raise"]
              /\ UNCHANGED booking_successful
         ELSE IF Enrolled(r)
         THEN /\ results' = [results EXCEPT ![b][Len(results[b])].bike_called = TRUE,
                                            ![b][Len(results[b])].bike = r,
                                            ![b][Len(results[b])].success = TRUE]
              /\ Log(b, <<"select_bike", "booked">>)
              /\ booking_successful' = [booking_successful EXCEPT ![b] = TRUE]
              /\ pending' = [pending EXCEPT ![b] = "break"]
         ELSE /\ results' = [results EXCEPT ![b][Len(results[b])].bike_called = TRUE,
                                            ![b][Len(results[b])].bike = r]
              /\ Log(b, <<"select_bike", "result_logged">>)
              /\ UNCHANGED <<booking_successful, pending>>
    /\ pc' = [pc EXCEPT ![b] = "finally"]
    /\ UNCHANGED <<entry, call, config, env_creds, sessions, gate_vars, driver, attempt,
                   target, main_vars>>

\* A plausible slip: the driver forgotten without being quit.
stop_driver_no_quit(b) ==
    /\ driver' = [driver EXCEPT ![b] = 0]
    /\ UNCHANGED sessions
    /\ Log(b, <<"stopped">>)

\* A plausible slip: the driver handle kept on the class, shared by every
\* BookingBot, so that stopping releases the session opened last by anyone.
stop_driver_shared(b) ==
    LET open == { i \in DOMAIN sessions : sessions[i].quits = 0 } IN
    IF open # {}
    THEN LET last == CHOOSE i \in open : \A j \in open : j <= i IN
         /\ sessions' = [sessions EXCEPT ![last].quits = @ + 1]
         /\ driver' = [driver EXCEPT ![b] = 0]
         /\ Log(b, <<"quit", "stopped">>)
    ELSE /\ UNCHANGED sessions
         /\ driver' = [driver EXCEPT ![b] = 0]
         /\ Log(b, <<"stopped">>)

\* BookingBot.stop_driver
stop_driver(b) ==
    /\ IF driver[b] # 0
       THEN /\ sessions' = [sessions EXCEPT ![driver[b]].quits = @ + 1]
            /\ driver' = [driver EXCEPT ![b] = 0]
            /\ Log(b, <<"quit", "stopped">>)
       ELSE /\ UNCHANGED <<sessions, driver>>
            /\ Log(b, <<"stopped">>)

\* finally: self.stop_driver(); then the exception goes on, or the break
\* leaves the loop, or the attempt is over.
Finally(b) ==
    /\ pc[b] = "finally"
    /\ stop_driver(b)
    /\ pc' = [pc EXCEPT ![b] = LeaveTry(pending[b])]
    /\ UNCHANGED <<entry, call, config, env_creds, gate_vars, attempt, booking_successful,
                   pending, target, results, main_vars>>

\* time.sleep(self.lag) at the end of the loop body.
Sleep(b) ==
    /\ pc[b] = "sleep"
    /\ Log(b, <<"sleep">>)
    /\ pc' = [pc EXCEPT ![b] = "for"]
    /\ UNCHANGED <<entry, call, config, env_creds, sessions, gate_vars, driver, attempt,
                   booking_successful, pending, target, results, main_vars>>

\* After the loop: the final failure is reported unless the flag is set.
AfterLoop(b) ==
    /\ pc[b] = "after_loop"
    /\ IF ~booking_successful[b]
       THEN Log(b, <<"final_failure">>)
       ELSE UNCHANGED trace
    /\ pc' = [pc EXCEPT ![b] = "done"]
    /\ UNCHANGED <<entry, call, config, env_creds, sessions, gate_vars, driver, attempt,
                   booking_successful, pending, target, results, main_vars>>

\* One BookingBot instance and its caller.
BotNext(b) ==
    \/ GateCall(b)
    \/ \E bike \in Bikes : RunCall(b, bike)
    \/ ForNext(b)
    \/ Login(b)
    \/ ClickBookNow(b)
    \/ SelectSession(b)
    \/ SelectBike(b)
    \/ Finally(b)
    \/ Sleep(b)
    \/ AfterLoop(b)


\* ------------------------------------------------------- bot_runner.main
\* What the script's login_to_website() hands back: a driver, a falsy value,
\* or an exception.  The driver of an attempt is named by the attempt's number.
M_LoginOutcomes == {"driver", "falsy", "raise"}
\* What the script's select_bike(driver, bike) hands back: a classification.
M_BikeOutcomes == {Str(EnrolledText), UnknownMsg}

MLog(events) == m_trace' = m_trace \o events

MSetLast(field, value) ==
    m_results' = [m_results EXCEPT ![Len(m_results)][field] = value]

\* A plausible slip: the counter compared with twice the limit.
LimitReached_doubled(count, limit) == count >= 2 * limit

\* A plausible slip: the limit compared with > instead of >=.
LimitReached_strict(count, limit) == count > limit

\* if time_check_count >= time_check_limit
LimitReached(count, limit) == count >= limit

\* main() is entered: the limit is read, the counter cleared.
MainStart ==
    /\ m_pc = "start"
    /\ time_check_count' = 0
    /\ m_pc' = "while"
    /\ UNCHANGED <<entry, call, config, env_creds, sessions, gate_vars, bot_vars, bike_idx,
                   m_attempt, m_booking_successful, m_driver, m_pending, m_polls,
                   m_results, m_trace, m_summary>>

\* while not is_time_to_book(): the gate is evaluated (the function of that
\* name the script imports from booking_bot).
While ==
    /\ m_pc = "while"
    /\ LET r == is_time_to_book(now, config) IN
         /\ gate_result' = IF r THEN "True" ELSE "False"
         /\ gate_opened' = (gate_opened \/ r)
         /\ m_polls' = Append(m_polls, IF r THEN "gate_true" ELSE "gate_false")
         /\ m_pc' = AfterGate(r)
    /\ UNCHANGED <<entry, call, config, env_creds, sessions, now, ticks, bot_vars,
                   time_check_count, bike_idx, m_attempt, m_booking_successful,
                   m_driver, m_pending, m_results, m_trace, m_summary>>

\* The body of the polling loop: sleep a minute, count, give up at the limit.
PollSleep ==
    /\ m_pc = "poll_sleep"
    /\ now' = NextMinute(now)
    /\ time_check_count' = time_check_count + 1
    /\ IF LimitReached(time_check_count + 1, config.time_check_limit)
       THEN /\ m_polls' = m_polls \o <<"sleep60", "exit">>
            /\ m_pc' = "exited"
       ELSE /\ m_polls' = Append(m_polls, "sleep60")
            /\ m_pc' = "while"
    /\ UNCHANGED <<entry, call, config, env_creds, sessions, ticks, gate_result, gate_opened,
                   bot_vars, bike_idx, m_attempt, m_booking_successful, m_driver,
                   m_pending, m_results, m_trace, m_summary>>

\* A plausible slip: flag and counter set once, before the loop over the bikes.
StartBike_no_reset ==
    UNCHANGED <<m_booking_successful, m_attempt>>

\* booking_successful = False and a new range(1, MAX_TRIES + 1) for the bike.
StartBike ==
    /\ m_booking_successful' = FALSE
    /\ m_attempt' = 0

\* for desired_bike in desired_bikes: the flag is cleared for the next bike.
ForBikes ==
    /\ m_pc = "for_bikes"
    /\ IF bike_idx < Len(config.desired_bikes)
       THEN /\ bike_idx' = bike_idx + 1
            /\ StartBike
            /\ m_results' = <<>>
            /\ m_trace' = <<>>
            /\ m_pc' = "for_attempts"
       ELSE /\ m_pc' = "done"
            /\ UNCHANGED <<bike_idx, m_booking_successful, m_attempt, m_results, m_trace>>
    /\ UNCHANGED <<entry, call, config, env_creds, sessions, gate_vars, bot_vars,
                   time_check_count, m_driver, m_pending, m_polls, m_summary>>

\* for attempt in range(1, MAX_TRIES + 1)
ForAttempts ==
    /\ m_pc = "for_attempts"
    /\ IF HasNextAttempt(m_attempt, config.max_tries)
       THEN /\ m_attempt' = m_attempt + 1
            /\ m_results' = Append(m_results, BlankAttempt)
            /\ MLog(<<"attempt">>)
            /\ m_pc' = "login"
       ELSE /\ m_pc' = "after_attempts"
            /\ UNCHANGED <<m_attempt, m_results, m_trace>>
    /\ UNCHANGED <<entry, call, config, env_creds, sessions, gate_vars, bot_vars,
                   time_check_count, bike_idx, m_booking_successful, m_driver,
                   m_pending, m_polls, m_summary>>

\* driver = login_to_website() in its try block; an exception is logged and
\* the loop continues with the next attempt; a falsy driver skips the steps.
MLogin ==
    /\ m_pc = "login"
    /\ \E out \in M_LoginOutcomes :
         CASE out = "raise" ->
                /\ MSetLast("login", "raise")
                /\ MLog(<<"login", "login_error">>)
                /\ m_pc' = "for_attempts"
                /\ UNCHANGED m_driver
           [] out = "driver" ->
                /\ m_driver' = m_attempt
                /\ MSetLast("login", "True")
                /\ MLog(<<"login">>)
                /\ m_pc' = "click_book_now"
           [] OTHER ->
                /\ m_driver' = 0
                /\ MSetLast("login", "False")
                /\ MLog(<<"login">>)
                /\ m_pc' = "sleep"
    /\ UNCHANGED <<entry, call, config, env_creds, sessions, gate_vars, bot_vars, time_check_count,
                   bike_idx, m_attempt, m_booking_successful, m_pending, m_polls,
                   m_summary>>

\* if click_book_now(driver)
MClick ==
    /\ m_pc = "click_book_now"
    /\ \E found \in BOOLEAN :
         /\ MSetLast("click", IF found THEN "True" ELSE "False")
         /\ m_pc' = IF found THEN "select_session" ELSE "quit"
    /\ MLog(<<"click_book_now">>)
    /\ UNCHANGED <<entry, call, config, env_creds, sessions, gate_vars, bot_vars,
                   time_check_count, bike_idx, m_attempt, m_booking_successful,
                   m_driver, m_pending, m_polls, m_summary>>

\* if select_session(driver)
MSession ==
    /\ m_pc = "select_session"
    /\ \E found \in BOOLEAN :
         /\ MSetLast("session", IF found THEN "True" ELSE "False")
         /\ m_pc' = IF found THEN "select_bike" ELSE "quit"
    /\ MLog(<<"select_session">>)
    /\ UNCHANGED <<entry, call, config, env_creds, sessions, gate_vars, bot_vars,
                   time_check_count, bike_idx, m_attempt, m_booking_successful,
                   m_driver, m_pending, m_polls, m_summary>>

\* result = select_bike(driver, desired_bike); on success the driver is
\* quit, the flag set and the loop left.
MBike ==
    /\ m_pc = "select_bike"
    /\ \E r \in M_BikeOutcomes :
         IF Enrolled(r)
         THEN /\ m_results' = [m_results EXCEPT ![Len(m_results)].bike_called = TRUE,
                                                ![Len(m_results)].bike = r,
                                                ![Len(m_results)].success = TRUE]
              /\ MLog(<<"select_bike", "booked", "quit">>)
              /\ m_booking_successful' = TRUE
              /\ m_pc' = "after_attempts"
         ELSE /\ m_results' = [m_results EXCEPT ![Len(m_results)].bike_called = TRUE,
                                                ![Len(m_results)].bike = r]
              /\ MLog(<<"select_bike", "result_logged">>)
              /\ m_pc' = "quit"
              /\ UNCHANGED m_booking_successful
    /\ UNCHANGED <<entry, call, config, env_creds, sessions, gate_vars, bot_vars, time_check_count,
                   bike_idx, m_attempt, m_driver, m_pending, m_polls, m_summary>>

\* driver.quit() at the end of the `if driver:` block.
MQuit ==
    /\ m_pc = "quit"
    /\ MLog(<<"quit">>)
    /\ m_pc' = "sleep"
    /\ UNCHANGED <<entry, call, config, env_creds, sessions, gate_vars, bot_vars, time_check_count,
                   bike_idx, m_attempt, m_booking_successful, m_driver, m_pending,
                   m_polls, m_results, m_summary>>

\* time.sleep(3)
MSleep ==
    /\ m_pc = "sleep"
    /\ MLog(<<"sleep">>)
    /\ m_pc' = "for_attempts"
    /\ UNCHANGED <<entry, call, config, env_creds, sessions, gate_vars, bot_vars,
                   time_check_count, bike_idx, m_attempt, m_booking_successful,
                   m_driver, m_pending, m_polls, m_results, m_summary>>

\* After the attempts of a bike: the final failure is reported unless the
\* flag is set.
AfterAttempts ==
    /\ m_pc = "after_attempts"
    /\ IF ~m_booking_successful
       THEN MLog(<<"final_failure">>)
       ELSE UNCHANGED m_trace
    /\ m_summary' = Append(m_summary,
                           [bike |-> config.desired_bikes[bike_idx],
                            attempts |-> Len(m_results),
                            booked |-> m_booking_successful,
                            reported |-> ~m_booking_successful])
    /\ m_pc' = "for_bikes"
    /\ UNCHANGED <<entry, call, config, env_creds, sessions, gate_vars, bot_vars,
                   time_check_count, bike_idx, m_attempt, m_booking_successful,
                   m_driver, m_pending, m_polls, m_results>>

MainNext ==
    \/ MainStart
    \/ While
    \/ PollSleep
    \/ ForBikes
    \/ ForAttempts
    \/ MLogin
    \/ MClick
    \/ MSession
    \/ MBike
    \/ MQuit
    \/ MSleep
    \/ AfterAttempts

\* ------------------------------------------------------- specifications
\* The bot that runs on its own.
RunBots == {"bot1"}

Next ==
    \/ \E b \in RunBots : BotNext(b)
    \/ MainNext

Spec == Init /\ [][Next]_vars

\* The program keeps executing: the interpreter takes the next step of run
\* or of main whenever there is one (every wait of a step is bounded by its
\* timeout, every sleep is finite).
SpecFair == Init /\ [][Next]_vars /\ WF_vars(Next)

\* The step methods called one at a time on a page in any state, as a unit
\* test of BookingBot would call them.
InitSteps ==
    /\ InitCommon
    /\ InitMain("off")
    /\ entry = "steps"
    /\ env_creds \in BOOLEAN
    /\ now = At(1, 9, 1)
    /\ config = Config(RunWindow, 1, 0, <<>>)

Called(name, page, r) ==
    /\ entry = "steps"
    /\ call' = [fn |-> name, page |-> page, ret |-> r]
    /\ UNCHANGED <<entry, config, env_creds, sessions, gate_vars, bot_vars, main_vars>>

CallLogin == \E page \in LoginPages :
    Called("login_to_website", page, login_to_website(env_creds, page))

CallSelectSession == \E page \in SessionPages :
    Called("select_session", page, select_session(page))

CallSelectBike == \E page \in BikePages :
    Called("select_bike", page, select_bike(page))

NextSteps == CallLogin \/ CallSelectSession \/ CallSelectBike

SpecSteps == InitSteps /\ [][NextSteps]_vars

\* Two BookingBot objects, one per target, each run by a thread of its own:
\* the steps of the two run() calls interleave freely.  Both read the one
\* module-level config.
MaxConcTries == 1

\* The target each thread is started with.
ConcTarget(b) == IF b = "bot1" THEN "Bike 7" ELSE "Bike 12"

InitConc ==
    /\ InitCommon
    /\ entry = "BookingBot"
    /\ env_creds = TRUE
    /\ now = At(1, 9, 1)
    /\ config \in { Config(RunWindow, n, 0, <<>>) : n \in 0..MaxConcTries }
    /\ InitMain("off")

\* One step of one of the two threads.
NextConc ==
    \E b \in Bots :
        \/ RunCall(b, ConcTarget(b))
        \/ ForNext(b)
        \/ Login(b)
        \/ ClickBookNow(b)
        \/ SelectSession(b)
        \/ SelectBike(b)
        \/ Finally(b)
        \/ Sleep(b)
        \/ AfterLoop(b)

SpecConc == InitConc /\ [][NextConc]_vars

\* The clock gate on its own: is_time_to_book over windows and times.
InitGate ==
    /\ InitCommon
    /\ InitMain("off")
    /\ entry = "gate"
    /\ env_creds = TRUE
    /\ now \in GateTimes
    /\ config \in { Config(w, 0, 0, <<>>) : w \in GateWindows }

NextGate ==
    \/ \E b \in RunBots : GateCall(b)
    \/ Tick

SpecGate == InitGate /\ [][NextGate]_vars

\* --------------------------------------------------------------- claims
\* How often event ev occurs in the trace tr.
Count(tr, ev) == Cardinality({ i \in DOMAIN tr : tr[i] = ev })

\* The sessions bot b started.
SessionsOf(b) == { i \in DOMAIN sessions : sessions[i].owner = b }

\* The attempt's bike step returned a text containing "successfully enrolled".
EnrolledOutcome(a) ==
    a.bike_called /\ ~a.bike.isNone /\ Contains(Needle, a.bike.text)

\* Every login made so far by bot b returned a falsy value.
EveryLoginFailed(b) ==
    \A i \in DOMAIN results[b] : results[b][i].login \in {"False", "None", "notrun"}

\* C1: when login fails on every attempt, run with max_tries = N makes
\* exactly N attempts, never an (N+1)-th, each on a session started for it
\* (self.driver is None when the attempt starts), and reports the final
\* failure exactly once.
C1_FailingLoginUsesEveryTry ==
    \A b \in RunBots :
        /\ Len(results[b]) <= config.max_tries
        /\ attempt[b] = Len(results[b])
        /\ pc[b] = "login" => driver[b] = 0
        /\ Count(trace[b], "final_failure") <= 1
        /\ EveryLoginFailed(b) =>
             /\ Count(trace[b], "start_driver") = Count(trace[b], "login")
             /\ Cardinality(SessionsOf(b)) = Count(trace[b], "login")
             /\ pc[b] # "raised"
             /\ pc[b] = "done" =>
                  /\ Len(results[b]) = config.max_tries
                  /\ Count(trace[b], "attempt") = config.max_tries
                  /\ Count(trace[b], "login") = config.max_tries
                  /\ Count(trace[b], "final_failure") = 1
                  /\ ~booking_successful[b]

C1_Witness ==
    /\ pc["bot1"] = "done"
    /\ EveryLoginFailed("bot1")
    /\ config.max_tries = 3
    /\ Count(trace["bot1"], "login") = 3
    /\ Count(trace["bot1"], "final_failure") = 1

\* C2: when attempt k is the first to yield the enrollment-success outcome,
\* the retry loop (run, and the per-bike loop of main) makes exactly k
\* attempts for the target and no attempt k+1, records the booking as
\* successful and does not report the final failure.
C2_StopsAtFirstSuccess ==
    /\ \A b \in RunBots : \A i \in DOMAIN results[b] :
         EnrolledOutcome(results[b][i]) =>
            /\ i = Len(results[b])
            /\ attempt[b] = i
            /\ Count(trace[b], "attempt") = i
            /\ booking_successful[b]
            /\ Count(trace[b], "final_failure") = 0
            /\ pc[b] \in {"finally", "after_loop", "done"}
    /\ \A i \in DOMAIN m_results :
         EnrolledOutcome(m_results[i]) =>
            /\ i = Len(m_results)
            /\ m_attempt = i
            /\ Count(m_trace, "attempt") = i
            /\ m_booking_successful
            /\ Count(m_trace, "final_failure") = 0
            /\ m_pc \in {"after_attempts", "for_bikes", "done"}
    /\ \A j \in DOMAIN m_summary : m_summary[j].booked => ~m_summary[j].reported

C2_Witness ==
    /\ pc["bot1"] = "done"
    /\ config.max_tries = 3
    /\ Len(results["bot1"]) = 2
    /\ ~EnrolledOutcome(results["bot1"][1])
    /\ EnrolledOutcome(results["bot1"][2])
    /\ booking_successful["bot1"]

\* C4: in run every session started for an attempt is quit exactly once and
\* self.driver reset to None, however the attempt ends: no session is open
\* when the next attempt begins or when run has ended (normally or by an
\* exception), and no session is quit twice.
C4_SessionReleasedOnce ==
    \A b \in RunBots :
        /\ \A i \in SessionsOf(b) : sessions[i].quits <= 1
        /\ \A i \in SessionsOf(b) : sessions[i].quits = 0 => driver[b] = i
        /\ driver[b] # 0 => driver[b] \in SessionsOf(b) /\ sessions[driver[b]].quits = 0
        /\ pc[b] \in {"idle", "for", "login", "sleep", "after_loop", "done", "raised"} =>
             /\ driver[b] = 0
             /\ \A i \in SessionsOf(b) : sessions[i].quits = 1
             /\ Count(trace[b], "quit") = Count(trace[b], "start_driver")
        /\ pc[b] \in {"click_book_now", "select_session", "select_bike", "finally"} =>
             driver[b] # 0

C4_Witness ==
    /\ pc["bot1"] = "raised"
    /\ Len(results["bot1"]) = 2
    /\ Cardinality(SessionsOf("bot1")) = 2
    /\ \A i \in SessionsOf("bot1") : sessions[i].quits = 1
    /\ driver["bot1"] = 0

\* Login, menu and session all returned a truthy value in the attempt.
StepsTruthy(a) == Truthy(a.login) /\ Truthy(a.click) /\ Truthy(a.session)

\* The decision rule on its own: the flag is set in an attempt exactly when
\* the three steps were truthy and the bike step yielded the enrollment.
C3_DecisionRule ==
    /\ \A b \in RunBots : \A i \in DOMAIN results[b] :
         (i < Len(results[b]) \/ pc[b] \notin {"login", "click_book_now", "select_session", "select_bike"})
            => (results[b][i].success <=> (StepsTruthy(results[b][i]) /\ EnrolledOutcome(results[b][i])))
    /\ \A b \in RunBots :
         booking_successful[b] <=> (\E i \in DOMAIN results[b] : results[b][i].success)
    /\ \A i \in DOMAIN m_results :
         (i < Len(m_results) \/ m_pc \notin {"login", "click_book_now", "select_session", "select_bike"})
            => (m_results[i].success <=> (StepsTruthy(m_results[i]) /\ EnrolledOutcome(m_results[i])))

\* C3: an attempt counts as successful iff login, menu and session returned
\* truthy and the bike step yielded the enrollment; every other combination
\* of step outcomes leaves the attempt failed and eligible for retry (while
\* tries remain, run does not end on a failed attempt).
C3_SuccessRuleAndRetry ==
    /\ C3_DecisionRule
    /\ \A b \in RunBots :
         (/\ pc[b] \in {"raised", "after_loop", "done"}
          /\ ~booking_successful[b])
            => Len(results[b]) = config.max_tries

\* C5: no error escapes run: whatever the four steps find on the page, run
\* ends normally, never with an exception reaching its caller.
C5_NoErrorEscapes ==
    \A b \in RunBots : pc[b] # "raised"

\* C6: with the credentials absent the run stops at setup: no browser
\* session is started, no login is tried, the absence is reported once.
C6_MissingCredentialsStopAtSetup ==
    \A b \in RunBots :
        ~env_creds =>
            /\ Cardinality(SessionsOf(b)) = 0
            /\ Count(trace[b], "login") = 0
            /\ Count(trace[b], "creds_missing") <= 1

\* The window as the specification words it: weekday name, hour, and the
\* minute within the inclusive range.
InWindow(t, cfg) ==
    /\ DayNames[t.weekday] = cfg.booking_day
    /\ t.hour = cfg.booking_hour
    /\ t.minute \in cfg.booking_minute_start .. cfg.booking_minute_end

\* C7: is_time_to_book returns True iff the weekday name equals booking_day,
\* the hour equals booking_hour and the minute lies in the inclusive range;
\* the minute after the end gives False, and a range that wraps past the
\* hour (start > end) never gives True.
C7_GateIffInWindow ==
    gate_result # "unset" =>
        /\ (gate_result = "True") <=> InWindow(now, config)
        /\ now.minute = config.booking_minute_end + 1 => gate_result = "False"
        /\ config.booking_minute_start > config.booking_minute_end => gate_result = "False"

C7_Witness ==
    /\ entry = "gate"
    /\ ticks > 0
    /\ gate_result = "True"
    /\ config.booking_minute_start < config.booking_minute_end
    /\ now.minute = config.booking_minute_end

Max(a, b) == IF a >= b THEN a ELSE b

\* No bike has been touched by main.
NoBookingAttempt ==
    bike_idx = 0 /\ m_attempt = 0 /\ m_results = <<>> /\ m_trace = <<>> /\ m_summary = <<>>

\* C8 as stated: the polling loop gives up after exactly time_check_limit
\* false evaluations of the gate, for every time_check_limit >= 0.
C8_GivesUpAfterLimit ==
    m_pc = "exited" =>
        /\ Count(m_polls, "gate_false") = config.time_check_limit
        /\ NoBookingAttempt

\* C8 amended: the polling loop gives up after exactly
\* max(1, time_check_limit) false evaluations, each followed by one sleep
\* of a minute, and then exits without any booking attempt.
C8_GivesUpAfterLimitOrOne ==
    /\ Count(m_polls, "gate_false") <= Max(1, config.time_check_limit)
    /\ \A i \in DOMAIN m_polls :
         /\ m_polls[i] = "gate_false" /\ i < Len(m_polls) => m_polls[i + 1] = "sleep60"
         /\ m_polls[i] = "sleep60" => i > 1 /\ m_polls[i - 1] = "gate_false"
    /\ m_pc = "exited" =>
         /\ Count(m_polls, "gate_false") = Max(1, config.time_check_limit)
         /\ Count(m_polls, "sleep60") = Count(m_polls, "gate_false")
         /\ time_check_count = Count(m_polls, "gate_false")
         /\ Count(m_polls, "gate_true") = 0
         /\ NoBookingAttempt

C8_Witness ==
    /\ m_pc = "exited"
    /\ config.time_check_limit = 2
    /\ m_polls = <<"gate_false", "sleep60", "gate_false", "sleep60", "exit">>

\* Where main is once the polling loop has been left for the bikes.
BookingPcs ==
    {"for_bikes", "for_attempts", "login", "click_book_now", "select_session",
     "select_bike", "quit", "sleep", "after_attempts", "done"}

\* C9: the polling loop of main opens the moment the gate evaluates true:
\* the run goes on to the bikes at that evaluation, with no further sleep,
\* and no login for any bike happens before an evaluation returned true.
C9_LoopOpensOnTrueGate ==
    /\ \A i \in DOMAIN m_polls :
         m_polls[i] = "gate_true" => i = Len(m_polls) /\ m_pc \in BookingPcs
    /\ (m_pc \in BookingPcs \/ ~NoBookingAttempt) =>
         /\ m_polls # <<>>
         /\ m_polls[Len(m_polls)] = "gate_true"
         /\ gate_opened
         /\ InWindow(now, config)
    /\ m_pc = "exited" => Count(m_polls, "gate_true") = 0

C9_Witness ==
    /\ m_pc = "click_book_now"
    /\ Count(m_trace, "login") = 1
    /\ m_polls = <<"gate_false", "sleep60", "gate_true">>

\* C10: run checks the clock gate as part of the booking process: no login
\* is made by run unless is_time_to_book has returned true.
C10_RunChecksGate ==
    \A b \in RunBots : Count(trace[b], "login") > 0 => gate_opened

\* Where main is while a bike is being processed.
BikePcs ==
    {"for_attempts", "login", "click_book_now", "select_session", "select_bike",
     "quit", "sleep", "after_attempts"}

\* The attempts in rs whose bike step yielded the enrollment.
EnrolledAt(rs) == { i \in DOMAIN rs : EnrolledOutcome(rs[i]) }

\* C11: in main every bike gets its own full retry budget: counter and flag
\* restart for every bike, so the attempts made for a bike and its report
\* follow from that bike's own step outcomes alone, whatever happened to the
\* bikes before it; and every bike of the list is processed.
C11_EachBikeOwnBudget ==
    /\ m_pc \in BikePcs =>
         /\ Len(m_summary) = bike_idx - 1
         /\ m_attempt = Len(m_results)
         /\ Len(m_results) <= config.max_tries
         /\ m_booking_successful <=> EnrolledAt(m_results) # {}
    /\ (m_pc = "for_bikes" /\ bike_idx > 0) =>
         /\ Len(m_summary) = bike_idx
         /\ m_summary[bike_idx].bike = config.desired_bikes[bike_idx]
         /\ m_summary[bike_idx].attempts = Len(m_results)
         /\ m_summary[bike_idx].booked <=> EnrolledAt(m_results) # {}
         /\ m_summary[bike_idx].booked => EnrolledAt(m_results) = {Len(m_results)}
         /\ ~m_summary[bike_idx].booked => Len(m_results) = config.max_tries
         /\ m_summary[bike_idx].reported <=> ~m_summary[bike_idx].booked
         /\ Count(m_trace, "final_failure") = (IF m_summary[bike_idx].booked THEN 0 ELSE 1)
    /\ m_pc = "done" =>
         /\ Len(m_summary) = Len(config.desired_bikes)
         /\ \A j \in DOMAIN m_summary : m_summary[j].bike = config.desired_bikes[j]

C11_Witness ==
    /\ m_pc = "done"
    /\ config.max_tries = 3
    /\ Len(m_summary) = 2
    /\ m_summary[1].booked /\ m_summary[1].attempts = 2
    /\ ~m_summary[2].booked /\ m_summary[2].attempts = 3 /\ m_summary[2].reported

\* The attempt ends the retry loop of run: enrollment (break) or a result
\* that is no text (the membership test raises).
Stops(a) == a.bike_called /\ (a.bike.isNone \/ Enrolled(a.bike))

\* What run(target) does when it runs alone, as a function of the outcomes
\* rs of its own steps and of max_tries n: it ends in pc "raised" or "done",
\* with or without the booking, after Len(rs) attempts.
AloneOutcome(rs, n) ==
    IF \E i \in DOMAIN rs : Stops(rs[i])
    THEN LET k == CHOOSE i \in DOMAIN rs : Stops(rs[i]) /\ \A j \in 1..(i - 1) : ~Stops(rs[j])
         IN [attempts |-> k,
             end |-> IF rs[k].bike.isNone THEN "raised" ELSE "done",
             booked |-> ~rs[k].bike.isNone]
    ELSE [attempts |-> n, end |-> "done", booked |-> FALSE]

InOrder(a) ==
    /\ a.click # "notrun" => a.login = "True"
    /\ a.session # "notrun" => a.click = "True"
    /\ a.bike_called => a.session = "True"

\* In a trace of step events every step directly follows the step before
\* it, and the first step after an attempt's announcement is the login.
StepsChained(tr, setup) ==
    \A i \in DOMAIN tr :
        /\ tr[i] = "click_book_now" => i > 1 /\ tr[i - 1] = "login"
        /\ tr[i] = "select_session" => i > 1 /\ tr[i - 1] = "click_book_now"
        /\ tr[i] = "select_bike" => i > 1 /\ tr[i - 1] = "select_session"
        /\ tr[i] = "login" =>
             \E j \in 1..(i - 1) :
                 /\ tr[j] = "attempt"
                 /\ \A k \in (j + 1)..(i - 1) : tr[k] \in setup
        /\ (tr[i] = "attempt" /\ i < Len(tr)) => tr[i + 1] \in setup \cup {"login"}

\* C13: within one attempt, in run and in main, the steps run in the order
\* login, click_book_now, select_session, select_bike; a step is invoked only
\* if every earlier step of the same attempt returned a truthy value; every
\* later attempt starts again from login.
C13_StepsInOrder ==
    /\ \A b \in RunBots :
         /\ \A i \in DOMAIN results[b] : InOrder(results[b][i])
         /\ StepsChained(trace[b], {"start_driver", "get_login_url", "creds_missing"})
         /\ Count(trace[b], "login") <= Count(trace[b], "attempt")
         /\ pc[b] = "click_book_now" => results[b][Len(results[b])].login = "True"
         /\ pc[b] = "select_session" => results[b][Len(results[b])].click = "True"
         /\ pc[b] = "select_bike" => results[b][Len(results[b])].session = "True"
    /\ \A i \in DOMAIN m_results : InOrder(m_results[i])
    /\ StepsChained(m_trace, {})
    /\ Count(m_trace, "login") <= Count(m_trace, "attempt")

\* A first attempt stopped after a failed session step, a second one that
\* starts from login again and reaches the bike step.
C13_Witness ==
    /\ Len(results["bot1"]) = 2
    /\ results["bot1"][1].login = "True"
    /\ results["bot1"][1].click = "True"
    /\ results["bot1"][1].session = "False"
    /\ ~results["bot1"][1].bike_called
    /\ results["bot1"][2].bike_called
    /\ pc["bot1"] = "done"

\* In run every attempt after the first is announced directly after the
\* quit of the previous session, the reset of self.driver and one sleep.
ReleaseThenDelayInRun ==
    \A b \in RunBots : \A i \in DOMAIN trace[b] :
        (trace[b][i] = "attempt" /\ i > 1) =>
            /\ i > 3
            /\ trace[b][i - 1] = "sleep"
            /\ trace[b][i - 2] = "stopped"
            /\ trace[b][i - 3] = "quit"

\* In main every attempt after the first of a bike is announced directly
\* after one sleep, which follows the quit of the previous driver (or the
\* login that returned no driver).
ReleaseThenDelayInMain ==
    \A i \in DOMAIN m_trace :
        (m_trace[i] = "attempt" /\ i > 1) =>
            /\ i > 2
            /\ m_trace[i - 1] = "sleep"
            /\ m_trace[i - 2] \in {"quit", "login"}

\* C14: between consecutive attempts both retry loops first release the
\* previous attempt's session and then wait one delay before the next
\* login, on every path by which an attempt fails, a login that raises
\* included.
C14_ReleaseThenDelay ==
    /\ ReleaseThenDelayInRun
    /\ ReleaseThenDelayInMain

\* C15: select_bike returns a message for every state of the page after the
\* click: the seat error when the bike is not clickable in time, the
\* no-series message when the alert is displayed, the success element's text
\* when that is displayed, the unknown-outcome message when neither is
\* displayed; it never ends without a message.
C15_AlwaysClassifies ==
    call.fn = "select_bike" =>
        LET p == call.page
            r == call.ret
        IN
        /\ ~r.isNone
        /\ ~p.bike => r = SeatErrorMsg
        /\ (p.bike /\ p.alert = "displayed") => r = NoSeriesMsg
        /\ (p.bike /\ p.alert # "displayed" /\ p.success = "displayed") => r = Str(p.text)
        /\ (p.bike /\ p.alert # "displayed" /\ p.success # "displayed") => r = UnknownMsg

\* The entry's text contains the activity, the instructor and the time.
HasAllThree(e) == e.activity /\ e.instructor /\ e.time

\* The entries of the page that contain all three, by position.
FullMatches(p) == { k \in DOMAIN p.entries : HasAllThree(p.entries[k]) }

FirstOf(S) == CHOOSE k \in S : \A j \in S : k <= j

\* C16 as stated: select_session clicks the first entry, in document order,
\* that contains all three texts, and returns False without a click when no
\* entry does.
C16_ClicksFirstMatch ==
    call.fn = "select_session" =>
        LET p == call.page
            r == call.ret
        IN
        /\ FullMatches(p) # {} => r.clicked = FirstOf(FullMatches(p)) /\ r.ret = "True"
        /\ FullMatches(p) = {} => r.clicked = 0 /\ r.ret = "False"

\* C16: select_session clicks the first entry, in document order, that
\* contains all three texts, provided its link becomes clickable within the
\* wait, and then returns True; when that link does not, or when no entry
\* contains all three, it returns False and has clicked nothing.  It never
\* clicks an entry that misses one of the three nor a later full match.
C16_ClicksFirstMatchIfClickable ==
    call.fn = "select_session" =>
        LET p == call.page
            r == call.ret
            first == FirstOf(FullMatches(p))
        IN
        /\ r.ret = "True" <=> r.clicked # 0
        /\ r.clicked # 0 => r.clicked \in FullMatches(p)
        /\ (FullMatches(p) # {} /\ p.entries[first].clickable) => r.clicked = first
        /\ (FullMatches(p) # {} /\ ~p.entries[first].clickable) => r.clicked = 0
        /\ FullMatches(p) = {} => r.clicked = 0

\* The first entry lacks the time, the second contains all three and is clicked.
C16_Witness ==
    /\ call.fn = "select_session"
    /\ Len(call.page.entries) = 2
    /\ call.page.entries[1] = Entry(TRUE, TRUE, FALSE, TRUE)
    /\ HasAllThree(call.page.entries[2])
    /\ call.ret.clicked = 2
    /\ call.ret.ret = "True"

\* C17: login_to_website returns False exactly when the credentials are
\* missing, a required element is not found in time, or the alert is
\* displayed after sign-in; in every other case, a present but hidden alert
\* included, it returns True.
C17_FalsyOnlyOnFailure ==
    call.fn = "login_to_website" =>
        LET failed == ~env_creds \/ ~call.page.found \/ call.page.alert = "displayed" IN
        /\ failed => call.ret = "False"
        /\ ~failed => call.ret = "True"

\* run has returned or raised; main has returned.
Terminated ==
    \/ entry = "BookingBot" /\ \A b \in RunBots : pc[b] \in {"done", "raised"}
    \/ entry = "bot_runner" /\ m_pc \in {"done", "exited"}

\* Where run and main are inside an attempt.
AttemptPcs == {"login", "click_book_now", "select_session", "select_bike", "finally", "quit"}

\* Every retry loop has made at most max_tries attempts, and the attempt
\* under way is numbered within 1..max_tries.
TriesWithinBudget ==
    /\ \A b \in RunBots :
         /\ Count(trace[b], "attempt") <= config.max_tries
         /\ attempt[b] = Count(trace[b], "attempt")
         /\ pc[b] \in AttemptPcs => attempt[b] \in 1..config.max_tries
    /\ Count(m_trace, "attempt") <= config.max_tries
    /\ m_attempt = Count(m_trace, "attempt")
    /\ m_pc \in AttemptPcs => m_attempt \in 1..config.max_tries

\* C18 as stated: the polling loop makes at most time_check_limit sleeps,
\* every retry loop at most max_tries attempts, numbered 1..max_tries.
C18_BudgetsAsStated ==
    /\ Count(m_polls, "sleep60") <= config.time_check_limit
    /\ TriesWithinBudget

\* C18: under every sequence of step outcomes a run terminates; the polling
\* loop makes at most max(1, time_check_limit) sleeps (one sleep even when
\* the limit is 0), every retry loop at most max_tries attempts, and an
\* attempt's number is always within 1..max_tries.
C18_TerminatesWithinBudgets ==
    /\ <>Terminated
    /\ [](Count(m_polls, "sleep60") <= Max(1, config.time_check_limit))
    /\ []TriesWithinBudget

\* main has ended after polling up to its limit on one path, and after
\* using every try for both bikes on another.
C18_Witness ==
    /\ Terminated
    /\ \/ m_pc = "exited" /\ Count(m_polls, "sleep60") = 2 /\ config.time_check_limit = 2
       \/ /\ m_pc = "done" /\ Len(m_summary) = 2 /\ config.max_tries = 3
          /\ m_summary[2].attempts = 3

\* The attempts of bot b that did not yield the enrollment.
FailedAttempts(b) == { i \in DOMAIN results[b] : ~EnrolledOutcome(results[b][i]) }

\* When run has returned, the sleeps made equal the failed attempts, the
\* final failure is reported after max_tries sleeps, and the trace of a
\* booked run ends with the release of the session, not with a sleep.
DelaysMatchFailuresWhenReturned ==
    \A b \in RunBots :
        pc[b] = "done" =>
            /\ Count(trace[b], "sleep") = Cardinality(FailedAttempts(b))
            /\ ~booking_successful[b] =>
                 /\ Count(trace[b], "sleep") = config.max_tries
                 /\ config.max_tries > 0 =>
                      trace[b][Len(trace[b]) - 1] = "sleep"
            /\ booking_successful[b] =>
                 /\ Count(trace[b], "sleep") = Len(results[b]) - 1
                 /\ trace[b][Len(trace[b])] = "stopped"

\* C19: in BookingBot.run the number of inter-attempt delays equals the
\* number of failed attempts: a delay follows every failed attempt, the last
\* one included, and none follows the successful attempt.
C19_DelayAfterEveryFailure ==
    /\ DelaysMatchFailuresWhenReturned
    /\ \A b \in RunBots :
         pc[b] = "raised" => Count(trace[b], "sleep") = Cardinality(FailedAttempts(b))

====
